---- MODULE Spec2Model ----
(***************************************************************************)
(* Model of `hab pkg download` (components/hab/src/command/pkg/download.rs) *)
(*                                                                         *)
(* One run is start() -> DownloadTask::execute(): directory preparation,   *)
(* expansion of the input identifiers through the depot, then a loop over  *)
(* the expanded (ident, target) pairs doing cached/retried fetch, signer   *)
(* key fetch and optional verification.  The download directory (its three *)
(* directories, the artifact files and the key files) outlives a run, so   *)
(* the model lets several runs follow each other over the same directory.  *)
(*                                                                         *)
(* The depot, the artifact reader/verifier and the filesystem are the      *)
(* environment: every answer they can give is a nondeterministic choice.   *)
(* Reporter (ui) calls change no state of the run and are left out.        *)
(***************************************************************************)
EXTENDS Integers, Sequences, FiniteSets, TLC

\* ---------------------------------------------------------------- bounds
MaxIdents == 2          \* longest list of input identifiers given to start

\* ------------------------------------------------------ program constants
RETRIES == 5            \* pub const RETRIES: usize = 5

\* ------------------------------------------------------------ the universe
\* Fully qualified identifiers the depot knows, and the identifiers a user
\* may type (two partial ones, and one that is already fully qualified).
FQIdents == {"a/1", "b/1", "c/1"}
InputIdents == {"a", "b", "c/1"}
Targets == {"linux"}
Signers == {"s1", "s2"}

\* What show_package_metadata answers for an input identifier when it
\* answers with a package: the resolved identifier and its tdeps (a Vec).
\* b/1 depends on a/1; c/1 depends on a/1 and b/1 and lists a/1 twice.
Catalog(id) ==
    CASE id = "a"   -> [ident |-> "a/1", tdeps |-> <<>>]
      [] id = "b"   -> [ident |-> "b/1", tdeps |-> <<"a/1">>]
      [] id = "c/1" -> [ident |-> "c/1", tdeps |-> <<"a/1", "b/1", "a/1">>]

\* The origin key that signed each package on the depot.
SignerOf(id) == IF id = "c/1" THEN "s2" ELSE "s1"

SeqsUpTo(S, n) == UNION {[1..k -> S] : k \in 0..n}

NoPair == <<"-", "-">>
NoSigner == "-"

\* The three directories the run needs, in the order of system_paths.
system_paths == <<"root", "keys", "artifacts">>
DirStates == {"absent", "dir", "readonly", "file"}

\* What an artifact file can hold: a well signed archive, an archive whose
\* payload does not match its signature, or bytes with no readable header.
FileContents == {"intact", "tampered", "nohdr"}

VARIABLES
    \* the download directory, shared by all runs
    dirs,                  \* state of each of the three directories
    artifacts,             \* cache path -> "absent" or the file's content
    keys,                  \* signers whose public key file is in <root>/keys
    \* the run
    pc,                    \* position of the current run
    idents, target, verify,     \* DownloadTask fields
    expanded_packages,     \* expand_sources: Vec<Package>
    expanded_idents,       \* expand_sources: HashSet<(ident, target)>
    todo,                  \* download_artifacts: pairs the for loop has left
    cur,                   \* the pair get_downloaded_archive is working on
    delays,                \* delays left in Fixed::from(RETRY_WAIT).take(RETRIES)
    signer,                \* fetch_keys_and_verify_artifact: signer
    downloaded_artifacts,  \* download_artifacts: Vec<PackageArchive>
    err,                   \* the Err the run returned, or "none"
    count,                 \* the Ok(n) execute returned, or -1
    \* observation of the calls made in the current run
    createCalls,           \* builder.create calls
    resolveCalls,          \* show_package_metadata calls
    tries,                 \* fetch_artifact calls made by the retry(..) call
                           \* in progress, or by the one that has just returned
    fetched,               \* pairs fetch_artifact was called for
    unsupported,           \* pairs the depot answered NOT_IMPLEMENTED for
    keyCalls,              \* fetch_origin_key calls for cur
    keyFetchedFor,         \* signers fetch_origin_key was called for
    verified,              \* pairs artifact.verify returned Ok for
    verifyCalls,           \* artifact.verify calls
    lastDone,              \* between two runs: the inputs of the run that has
                           \* just ended, if it ended Done
    rerun,                 \* the run repeats the inputs of the run before
                           \* it, and that run ended Done
    \* the loop of download_artifacts run as one task per pair
    tasks,                 \* the position of each pair's task and its signer
    writes                 \* the pairs whose task wrote each path

vars == <<dirs, artifacts, keys, pc, idents, target, verify,
          expanded_packages, expanded_idents, todo, cur, delays, signer,
          downloaded_artifacts, err, count, createCalls, resolveCalls,
          tries, fetched, unsupported, keyCalls, keyFetchedFor, verified,
          verifyCalls, lastDone, rerun, tasks, writes>>

parVars == <<tasks, writes>>
fsVars == <<dirs, artifacts, keys>>
taskVars == <<idents, target, verify>>
expandVars == <<expanded_packages, expanded_idents>>
pairVars == <<todo, cur, delays, signer, downloaded_artifacts>>
callVars == <<createCalls, resolveCalls, tries, fetched, unsupported,
              keyCalls, keyFetchedFor, verified, verifyCalls>>

Pairs == FQIdents \X Targets

\* ------------------------------------------------------------------ paths
path_for_keys == <<"root", "keys">>
path_for_artifact == <<"root", "artifacts">>

\* ident.archive_name_with_target(target): the file name is made of the
\* identifier's parts and the target.
archive_name_with_target(id, tg) == <<id, tg, "hart">>

\* (variant: every archive is given the same file name in the artifacts
\* directory)
downloaded_artifact_path_oneName(id, tg) ==
    Append(path_for_artifact, <<"archive", tg, "hart">>)

downloaded_artifact_path(id, tg) ==
    Append(path_for_artifact, archive_name_with_target(id, tg))

ArtifactPaths == {downloaded_artifact_path(p[1], p[2]) : p \in Pairs}

PathOf(p) == downloaded_artifact_path(p[1], p[2])

\* The file fetch_origin_key leaves in the keys directory is named after
\* the signer.
key_cache_path(s) == Append(path_for_keys, s)

CachePaths == ArtifactPaths \cup {key_cache_path(s) : s \in Signers}

\* ------------------------------------------------- directory preparation
\* DirBuilder::new().recursive(true).create(d): Ok when d is already a
\* directory, Err when something else is in the way or the parent cannot
\* be written, and otherwise d is made.  parentOk says whether the parent
\* of the download root lets the root be made.
CanCreate(ds, d, parentOk) ==
    CASE ds[d] \in {"dir", "readonly"} -> TRUE
      [] ds[d] = "file" -> FALSE
      [] OTHER -> IF d = "root" THEN parentOk ELSE ds["root"] = "dir"

Created(ds, d) == IF ds[d] = "absent" THEN [ds EXCEPT ![d] = "dir"] ELSE ds

\* The first loop of verify_and_prepare_download_directory, from
\* system_paths[k] on: the directories after it, whether every create
\* succeeded, and the number of create calls made.
RECURSIVE CreateDirs(_, _, _, _)
CreateDirs(ds, k, parentOk, n) ==
    IF k > Len(system_paths) THEN [ok |-> TRUE, dirs |-> ds, calls |-> n]
    ELSE IF ~CanCreate(ds, system_paths[k], parentOk)
         THEN [ok |-> FALSE, dirs |-> ds, calls |-> n + 1]
         ELSE CreateDirs(Created(ds, system_paths[k]), k + 1, parentOk, n + 1)

\* (variant: the second loop without its read-only test)
PermissionsOk_dirOnly(ds) ==
    \A k \in 1..Len(system_paths) : ds[system_paths[k]] \in {"dir", "readonly"}

\* The second loop: every path is a directory and none is read-only.
PermissionsOk(ds) ==
    \A k \in 1..Len(system_paths) :
        /\ ds[system_paths[k]] \in {"dir", "readonly"}
        /\ ds[system_paths[k]] # "readonly"

\* States the directory tree can be in before a run: nothing can be below
\* a root that is missing or is a plain file.
InitDirs ==
    {ds \in [{"root", "keys", "artifacts"} -> DirStates] :
        ds["root"] \in {"absent", "file"} =>
            (ds["keys"] = "absent" /\ ds["artifacts"] = "absent")}

\* ------------------------------------------------------------------- Init
NoCalls ==
    /\ createCalls = 0
    /\ resolveCalls = 0
    /\ tries = 0
    /\ fetched = {}
    /\ unsupported = {}
    /\ keyCalls = 0
    /\ keyFetchedFor = {}
    /\ verified = {}
    /\ verifyCalls = 0

NoRun == [idents |-> <<>>, target |-> "-"]

NoTask == [pc |-> "-", signer |-> NoSigner]
NoTasks == [p \in Pairs |-> NoTask]
NoWrites == [f \in CachePaths |-> {}]

ResetCalls ==
    /\ createCalls' = 0
    /\ resolveCalls' = 0
    /\ tries' = 0
    /\ fetched' = {}
    /\ unsupported' = {}
    /\ keyCalls' = 0
    /\ keyFetchedFor' = {}
    /\ verified' = {}
    /\ verifyCalls' = 0

Init ==
    /\ dirs \in InitDirs
    /\ artifacts = [f \in ArtifactPaths |-> "absent"]
    /\ keys = {}
    /\ pc = "idle"
    /\ idents = <<>>
    /\ target = "-"
    /\ verify = FALSE
    /\ expanded_packages = <<>>
    /\ expanded_idents = {}
    /\ todo = {}
    /\ cur = NoPair
    /\ delays = 0
    /\ signer = NoSigner
    /\ downloaded_artifacts = <<>>
    /\ err = "none"
    /\ count = -1
    /\ NoCalls
    /\ lastDone = NoRun
    /\ rerun = FALSE
    /\ tasks = NoTasks
    /\ writes = NoWrites

\* The run ends by returning Err(e).
Fail(e) ==
    /\ pc' = "Failed"
    /\ err' = e
    /\ count' = -1

\* (variant: start without its test for an empty identifier list)
start_unchecked(ids, tg, vf) ==
    /\ pc = "idle"
    /\ rerun' = (lastDone = [idents |-> ids, target |-> tg])
    /\ lastDone' = NoRun
    /\ idents' = ids
    /\ target' = tg
    /\ verify' = vf
    /\ pc' = "prepare"
    /\ UNCHANGED <<err, count>>
    /\ UNCHANGED <<fsVars, expandVars, pairVars, callVars, parVars>>

\* ------------------------------------------------------------------ start
\* start(): a new invocation over the same download directory.  With no
\* identifiers it returns MissingCLIInputError at once; otherwise it builds
\* the DownloadTask and calls execute.
start(ids, tg, vf) ==
    /\ pc = "idle"
    /\ rerun' = (lastDone = [idents |-> ids, target |-> tg])
    /\ lastDone' = NoRun
    /\ idents' = ids
    /\ target' = tg
    /\ verify' = vf
    /\ IF ids = <<>>
       THEN Fail("MissingCLIInputError")
       ELSE /\ pc' = "prepare"
            /\ UNCHANGED <<err, count>>
    /\ UNCHANGED <<fsVars, expandVars, pairVars, callVars, parVars>>

\* start() has returned and the DownloadTask is dropped: nothing of the run
\* is left but the download directory.  (lastDone keeps the inputs of a run
\* that ended Done until the next run starts, to tell whether that run
\* repeats them.)
finish ==
    /\ pc \in {"Done", "Failed"}
    /\ pc' = "idle"
    /\ lastDone' = IF pc = "Done" THEN [idents |-> idents, target |-> target]
                   ELSE NoRun
    /\ idents' = <<>>
    /\ target' = "-"
    /\ verify' = FALSE
    /\ rerun' = FALSE
    /\ expanded_packages' = <<>>
    /\ expanded_idents' = {}
    /\ todo' = {}
    /\ cur' = NoPair
    /\ delays' = 0
    /\ signer' = NoSigner
    /\ downloaded_artifacts' = <<>>
    /\ err' = "none"
    /\ count' = -1
    /\ ResetCalls
    /\ UNCHANGED <<fsVars, parVars>>

\* execute: self.verify_and_prepare_download_directory(ui)?
verify_and_prepare_download_directory(parentOk) ==
    /\ pc = "prepare"
    /\ LET r == CreateDirs(dirs, 1, parentOk, 0) IN
       /\ dirs' = r.dirs
       /\ createCalls' = r.calls
       /\ IF r.ok /\ PermissionsOk(r.dirs)
          THEN /\ pc' = "resolve"
               /\ UNCHANGED <<err, count>>
          ELSE Fail("PermissionFailed")
    /\ UNCHANGED <<artifacts, keys, lastDone, rerun, parVars>>
    /\ UNCHANGED <<taskVars, expandVars, pairVars>>
    /\ UNCHANGED <<resolveCalls, tries, fetched, unsupported, keyCalls, keyFetchedFor,
                   verified, verifyCalls>>

\* ---------------------------------------------------------- expand_sources
\* determine_latest_from_ident for idents[Len(expanded_packages) + 1], one
\* iteration of the first loop of expand_sources.  The depot answers with
\* the package, with NOT_FOUND or with another error; an Err ends the run.
DepotResolveAnswers == {"Ok", "NOT_FOUND", "APIError"}

\* (variant: a NOT_FOUND answer is recorded and the depot is asked again)
determine_latest_from_ident_askAgain(answer) ==
    /\ pc = "resolve"
    /\ LET ident == idents[Len(expanded_packages) + 1] IN
       /\ resolveCalls' = resolveCalls + 1
       /\ CASE answer = "Ok" ->
                 /\ expanded_packages' = Append(expanded_packages, Catalog(ident))
                 /\ pc' = IF Len(expanded_packages) + 1 = Len(idents)
                          THEN "collect" ELSE "resolve"
                 /\ UNCHANGED <<err, count>>
            [] answer = "NOT_FOUND" ->
                 /\ err' = "PackageNotFound"
                 /\ UNCHANGED <<pc, count, expanded_packages>>
            [] OTHER ->
                 /\ Fail("APIError")
                 /\ UNCHANGED expanded_packages
    /\ UNCHANGED <<fsVars, lastDone, rerun, parVars, taskVars, expanded_idents, pairVars>>
    /\ UNCHANGED <<createCalls, tries, fetched, unsupported, keyCalls, keyFetchedFor,
                   verified, verifyCalls>>

\* (variant: the first loop of expand_sources is left after the first
\* package the depot returns)
determine_latest_from_ident_firstOnly(answer) ==
    /\ pc = "resolve"
    /\ LET ident == idents[Len(expanded_packages) + 1] IN
       /\ resolveCalls' = resolveCalls + 1
       /\ CASE answer = "Ok" ->
                 /\ expanded_packages' = Append(expanded_packages, Catalog(ident))
                 /\ pc' = "collect"
                 /\ UNCHANGED <<err, count>>
            [] answer = "NOT_FOUND" ->
                 /\ Fail("PackageNotFound")
                 /\ UNCHANGED expanded_packages
            [] OTHER ->
                 /\ Fail("APIError")
                 /\ UNCHANGED expanded_packages
    /\ UNCHANGED <<fsVars, lastDone, rerun, parVars, taskVars, expanded_idents, pairVars>>
    /\ UNCHANGED <<createCalls, tries, fetched, unsupported, keyCalls, keyFetchedFor,
                   verified, verifyCalls>>

determine_latest_from_ident(answer) ==
    /\ pc = "resolve"
    /\ LET ident == idents[Len(expanded_packages) + 1] IN
       /\ resolveCalls' = resolveCalls + 1
       /\ CASE answer = "Ok" ->
                 /\ expanded_packages' = Append(expanded_packages, Catalog(ident))
                 /\ pc' = IF Len(expanded_packages) + 1 = Len(idents)
                          THEN "collect" ELSE "resolve"
                 /\ UNCHANGED <<err, count>>
            [] answer = "NOT_FOUND" ->
                 /\ Fail("PackageNotFound")
                 /\ UNCHANGED expanded_packages
            [] OTHER ->
                 /\ Fail("APIError")
                 /\ UNCHANGED expanded_packages
    /\ UNCHANGED <<fsVars, lastDone, rerun, parVars, taskVars, expanded_idents, pairVars>>
    /\ UNCHANGED <<createCalls, tries, fetched, unsupported, keyCalls, keyFetchedFor,
                   verified, verifyCalls>>

\* for ident in package.tdeps { expanded_idents.insert((ident, target)) }
RECURSIVE InsertTdeps(_, _, _, _)
InsertTdeps(set, tdeps, k, tg) ==
    IF k > Len(tdeps) THEN set
    ELSE InsertTdeps(set \cup {<<tdeps[k], tg>>}, tdeps, k + 1, tg)

\* (variant: the second loop without the insert of package.ident)
RECURSIVE CollectExpanded_tdepsOnly(_, _, _, _)
CollectExpanded_tdepsOnly(set, packages, k, tg) ==
    IF k > Len(packages) THEN set
    ELSE CollectExpanded_tdepsOnly(InsertTdeps(set, packages[k].tdeps, 1, tg),
                                   packages, k + 1, tg)

\* The second loop of expand_sources, from package k on.
RECURSIVE CollectExpanded(_, _, _, _)
CollectExpanded(set, packages, k, tg) ==
    IF k > Len(packages) THEN set
    ELSE CollectExpanded(
             InsertTdeps(set, packages[k].tdeps, 1, tg) \cup {<<packages[k].ident, tg>>},
             packages, k + 1, tg)

\* The rest of expand_sources, and the entry of download_artifacts with
\* the returned set.  (The Vec of packages is consumed by the loop; the
\* model keeps its value, which nothing reads afterwards.)
expand_sources ==
    /\ pc = "collect"
    /\ expanded_idents' = CollectExpanded({}, expanded_packages, 1, target)
    /\ todo' = expanded_idents'
    /\ pc' = "download"
    /\ UNCHANGED <<fsVars, lastDone, rerun, parVars, taskVars, expanded_packages, cur, delays, signer,
                   downloaded_artifacts, err, count, callVars>>

\* ------------------------------------------------------ download_artifacts
\* (variant: the cache is never looked at)
is_file_never(p) == FALSE

\* (variant: a file that would not verify counts as not downloaded)
is_file_intactOnly(p) == artifacts[PathOf(p)] = "intact"

\* self.downloaded_artifact_path(ident, target).is_file()
is_file(p) == artifacts[PathOf(p)] # "absent"

\* (variant: the loop notes the error of a pair and goes on to the next)
PairFailed_continue(e) ==
    /\ pc' = "download"
    /\ err' = e
    /\ count' = -1
    /\ UNCHANGED <<todo, cur, downloaded_artifacts>>

\* download_artifacts, Err(e) => return Err(e): the error of one pair is
\* the error of the run, and the loop is left.
PairFailed(e) ==
    /\ Fail(e)
    /\ UNCHANGED <<todo, cur, downloaded_artifacts>>

\* Within get_downloaded_archive, from one call to the next.
PairGoesOn(next) ==
    /\ pc' = next
    /\ UNCHANGED <<todo, cur, downloaded_artifacts, err, count>>

\* The for loop of download_artifacts takes the next pair of the HashSet
\* (in no particular order) and get_downloaded_archive starts on it: a
\* file at the cache path is used as it is, otherwise the retry iterator
\* is set up with RETRIES delays.
get_downloaded_archive(p) ==
    /\ pc = "download"
    /\ p \in todo
    /\ cur' = p
    /\ todo' = todo \ {p}
    /\ IF is_file(p)
       THEN /\ pc' = "signer"
            /\ delays' = 0
       ELSE /\ pc' = "fetch"
            /\ delays' = RETRIES
    /\ UNCHANGED <<fsVars, lastDone, rerun, parVars, taskVars, expandVars, signer,
                   downloaded_artifacts, err, count, callVars>>

\* The loop is over: download_artifacts returns the Vec and execute
\* returns its length.
download_artifacts_done ==
    /\ pc = "download"
    /\ todo = {}
    /\ pc' = "Done"
    /\ count' = Len(downloaded_artifacts)
    /\ UNCHANGED <<fsVars, lastDone, rerun, parVars, taskVars, expandVars, pairVars,
                   err, callVars>>

\* (variant: the delay iterator never runs out)
RetryAgain_always(d) == TRUE

\* retry(delay::Fixed::from(RETRY_WAIT).take(RETRIES), fetch_artifact):
\* the retry crate runs the operation first and only then asks the
\* iterator for a delay; with a delay left it sleeps and runs the operation
\* again, with none left it returns the operation's error.
RetryAgain(d) == d > 0

\* The number DownloadFailed reports: format!("We tried {} times but could
\* not download {} for {}. Giving up.", RETRIES, ident, target).
ReportedTries == RETRIES

DepotFetchAnswers == {"Ok", "NOT_IMPLEMENTED", "APIError"}

\* (variant: NOT_IMPLEMENTED is an error like the others, and is retried)
fetch_artifact_retryUnsupported(answer, content) ==
    /\ pc = "fetch"
    /\ fetched' = fetched \cup {cur}
    /\ tries' = tries + 1
    /\ CASE answer = "Ok" ->
              /\ artifacts' = [artifacts EXCEPT ![PathOf(cur)] = content]
              /\ PairGoesOn("signer")
              /\ UNCHANGED <<delays, unsupported>>
         [] OTHER ->
              /\ unsupported' = IF answer = "NOT_IMPLEMENTED"
                                THEN unsupported \cup {cur} ELSE unsupported
              /\ UNCHANGED artifacts
              /\ IF RetryAgain(delays)
                 THEN /\ delays' = delays - 1
                      /\ PairGoesOn("fetch")
                 ELSE /\ PairFailed("DownloadFailed")
                      /\ UNCHANGED delays
    /\ UNCHANGED <<dirs, keys, lastDone, rerun, parVars, taskVars, expandVars, signer>>
    /\ UNCHANGED <<createCalls, resolveCalls, keyCalls, keyFetchedFor, verified, verifyCalls>>

\* One call of fetch_artifact by the retry loop.  Ok: the depot client has
\* written the archive (with whatever content it received) under the
\* artifacts directory.  NOT_IMPLEMENTED: nothing is written and Ok(()) is
\* returned all the same.  On Ok(()) retry returns.  Any other error is
\* retried or, with no delay left, becomes DownloadFailed.
fetch_artifact(answer, content) ==
    /\ pc = "fetch"
    /\ fetched' = fetched \cup {cur}
    /\ tries' = tries + 1
    /\ CASE answer = "Ok" ->
              /\ artifacts' = [artifacts EXCEPT ![PathOf(cur)] = content]
              /\ PairGoesOn("signer")
              /\ UNCHANGED <<delays, unsupported>>
         [] answer = "NOT_IMPLEMENTED" ->
              /\ unsupported' = unsupported \cup {cur}
              /\ PairGoesOn("signer")
              /\ UNCHANGED <<delays, artifacts>>
         [] OTHER ->
              /\ UNCHANGED <<artifacts, unsupported>>
              /\ IF RetryAgain(delays)
                 THEN /\ delays' = delays - 1
                      /\ PairGoesOn("fetch")
                 ELSE /\ PairFailed("DownloadFailed")
                      /\ UNCHANGED delays
    /\ UNCHANGED <<dirs, keys, lastDone, rerun, parVars, taskVars, expandVars, signer>>
    /\ UNCHANGED <<createCalls, resolveCalls, keyCalls, keyFetchedFor, verified, verifyCalls>>

\* ------------------------------------------- fetch_keys_and_verify_artifact
\* artifact::artifact_signer(&artifact.path): the signer named in the
\* header of the file at the path, or an error when there is no file to
\* open or no header to read.
artifact_signer(p) ==
    IF artifacts[PathOf(p)] \in {"absent", "nohdr"} THEN "Err"
    ELSE SignerOf(p[1])

\* (variant: the key is never looked for)
KeyMissing_never(s) == FALSE

\* (variant: the key is looked for only when the run verifies)
KeyMissing_ifVerify(s) == verify /\ s \notin keys

\* (variant: the key is fetched whether or not it is in the keys directory)
KeyMissing_always(s) == TRUE

\* SigKeyPair::get_public_key_path(&signer, &self.path_for_keys()).is_err()
KeyMissing(s) == s \notin keys

\* artifact.verify(&self.path_for_keys()): the payload matches the
\* signature made by the signer whose public key is in the keys directory.
artifact_verify(p) ==
    /\ artifacts[PathOf(p)] = "intact"
    /\ SignerOf(p[1]) \in keys

\* (variant: only a freshly downloaded archive is verified)
AfterKeys_freshOnly == IF verify /\ cur \in fetched THEN "verify" ELSE "push"

\* Where get_downloaded_archive goes after the signer's key is known to
\* be in the keys directory: if self.verify { artifact.verify(..)? } Ok(())
AfterKeys == IF verify THEN "verify" ELSE "push"

\* fetch_keys_and_verify_artifact up to the key lookup: read the signer
\* from the file, look for its public key in the keys directory.  (The
\* iterator and the counter of the retry call that came before are gone.)
read_signer ==
    /\ pc = "signer"
    /\ delays' = 0
    /\ tries' = 0
    /\ LET s == artifact_signer(cur) IN
       IF s = "Err"
       THEN /\ PairFailed("ArtifactError")
            /\ UNCHANGED signer
       ELSE /\ signer' = s
            /\ PairGoesOn(IF KeyMissing(s) THEN "key" ELSE AfterKeys)
    /\ UNCHANGED <<fsVars, lastDone, rerun, parVars, taskVars, expandVars>>
    /\ UNCHANGED <<createCalls, resolveCalls, fetched, unsupported, keyCalls, keyFetchedFor,
                   verified, verifyCalls>>

DepotKeyAnswers == {"Ok", "APIError"}

\* (variant: a failed key fetch is tried once more)
fetch_origin_key_twice(answer) ==
    /\ pc = "key"
    /\ keyCalls' = keyCalls + 1
    /\ keyFetchedFor' = keyFetchedFor \cup {signer}
    /\ IF answer = "Ok"
       THEN /\ keys' = keys \cup {signer}
            /\ PairGoesOn(AfterKeys)
       ELSE /\ IF keyCalls = 0 THEN PairGoesOn("key") ELSE PairFailed("APIError")
            /\ UNCHANGED keys
    /\ UNCHANGED <<dirs, artifacts, lastDone, rerun, parVars, taskVars, expandVars, delays, signer>>
    /\ UNCHANGED <<createCalls, resolveCalls, tries, fetched, unsupported,
                   verified, verifyCalls>>

\* self.fetch_origin_key(ui, &signer, self.token)?: Ok leaves the key file
\* in the keys directory; an error (of the depot, or of parsing the
\* signer's name) is returned as it is.
fetch_origin_key(answer) ==
    /\ pc = "key"
    /\ keyCalls' = keyCalls + 1
    /\ keyFetchedFor' = keyFetchedFor \cup {signer}
    /\ IF answer = "Ok"
       THEN /\ keys' = keys \cup {signer}
            /\ PairGoesOn(AfterKeys)
       ELSE /\ PairFailed("APIError")
            /\ UNCHANGED keys
    /\ UNCHANGED <<dirs, artifacts, lastDone, rerun, parVars, taskVars, expandVars, delays, signer>>
    /\ UNCHANGED <<createCalls, resolveCalls, tries, fetched, unsupported,
                   verified, verifyCalls>>

\* artifact.verify(&self.path_for_keys())?
verify_artifact ==
    /\ pc = "verify"
    /\ verifyCalls' = verifyCalls + 1
    /\ IF artifact_verify(cur)
       THEN /\ verified' = verified \cup {cur}
            /\ PairGoesOn("push")
       ELSE /\ PairFailed("VerificationFailed")
            /\ UNCHANGED verified
    /\ UNCHANGED <<fsVars, lastDone, rerun, parVars, taskVars, expandVars, delays, signer>>
    /\ UNCHANGED <<createCalls, resolveCalls, tries, fetched, unsupported,
                   keyCalls, keyFetchedFor>>

\* get_downloaded_archive returns Ok(artifact) and download_artifacts
\* pushes it; no pair is in work until the loop takes the next one.
push_archive ==
    /\ pc = "push"
    /\ downloaded_artifacts' = Append(downloaded_artifacts, cur)
    /\ pc' = "download"
    /\ cur' = NoPair
    /\ signer' = NoSigner
    /\ keyCalls' = 0
    /\ UNCHANGED <<fsVars, lastDone, rerun, parVars, taskVars, expandVars, todo, delays,
                   err, count, keyFetchedFor>>
    /\ UNCHANGED <<createCalls, resolveCalls, tries, fetched, unsupported,
                   verified, verifyCalls>>

\* ------------------------------------------------------------ specification
Next ==
    \/ \E ids \in SeqsUpTo(InputIdents, MaxIdents), tg \in Targets, vf \in BOOLEAN :
          start(ids, tg, vf)
    \/ \E parentOk \in BOOLEAN : verify_and_prepare_download_directory(parentOk)
    \/ \E answer \in DepotResolveAnswers : determine_latest_from_ident(answer)
    \/ expand_sources
    \/ \E p \in Pairs : get_downloaded_archive(p)
    \/ download_artifacts_done
    \/ \E answer \in DepotFetchAnswers, content \in FileContents :
          fetch_artifact(answer, content)
    \/ read_signer
    \/ \E answer \in DepotKeyAnswers : fetch_origin_key(answer)
    \/ verify_artifact
    \/ push_archive
    \/ finish

Spec == Init /\ [][Next]_vars

\* ------------------------------------------------- the loop run as tasks
\* execute says it is written "with an eye towards data parallelism": the
\* body of download_artifacts' for loop, get_downloaded_archive, run as one
\* task per pair of the expanded set over the one download directory.  A
\* task's steps are the places where it reads or writes the directory; the
\* retry loop touches nothing shared until it returns.
ParInit ==
    /\ dirs = [d \in {"root", "keys", "artifacts"} |-> "dir"]
    /\ artifacts \in [ArtifactPaths -> {"absent", "intact"}]
    /\ keys \in SUBSET Signers
    /\ pc = "download"
    /\ idents \in {<<i>> : i \in InputIdents}
    /\ target \in Targets
    /\ verify \in BOOLEAN
    /\ expanded_packages = <<Catalog(idents[1])>>
    /\ expanded_idents = CollectExpanded({}, expanded_packages, 1, target)
    /\ todo = {}
    /\ cur = NoPair
    /\ delays = 0
    /\ signer = NoSigner
    /\ downloaded_artifacts = <<>>
    /\ err = "none"
    /\ count = -1
    /\ createCalls = Len(system_paths)
    /\ resolveCalls = Len(idents)
    /\ tries = 0
    /\ fetched = {}
    /\ unsupported = {}
    /\ keyCalls = 0
    /\ keyFetchedFor = {}
    /\ verified = {}
    /\ verifyCalls = 0
    /\ lastDone = NoRun
    /\ rerun = FALSE
    /\ tasks = [p \in Pairs |->
                  IF p \in expanded_idents
                  THEN [pc |-> "start", signer |-> NoSigner] ELSE NoTask]
    /\ writes = NoWrites

seqVars == <<dirs, idents, target, verify, expandVars, pairVars, callVars,
             lastDone, rerun>>

TaskAt(p, where) == tasks[p].pc = where

TaskGoesOn(p, next) == tasks' = [tasks EXCEPT ![p].pc = next]

Wrote(p, path) == writes' = [writes EXCEPT ![path] = @ \cup {p}]

\* if self.downloaded_artifact_path(ident, target).is_file()
par_get_downloaded_archive(p) ==
    /\ TaskAt(p, "start")
    /\ TaskGoesOn(p, IF is_file(p) THEN "signer" ELSE "fetch")
    /\ UNCHANGED <<fsVars, seqVars, pc, err, count, writes>>

RetryOutcomes == {"Ok", "NOT_IMPLEMENTED", "DownloadFailed"}

\* retry(.., || self.fetch_artifact(..)) from its first call to its return:
\* Ok(()) with the file written, Ok(()) for an unsupported target with no
\* file written, or DownloadFailed.
par_fetch_artifact(p, outcome, content) ==
    /\ TaskAt(p, "fetch")
    /\ CASE outcome = "Ok" ->
              /\ artifacts' = [artifacts EXCEPT ![PathOf(p)] = content]
              /\ Wrote(p, PathOf(p))
              /\ TaskGoesOn(p, "signer")
         [] outcome = "NOT_IMPLEMENTED" ->
              /\ TaskGoesOn(p, "signer")
              /\ UNCHANGED <<artifacts, writes>>
         [] OTHER ->
              /\ TaskGoesOn(p, "Err")
              /\ UNCHANGED <<artifacts, writes>>
    /\ UNCHANGED <<dirs, keys, seqVars, pc, err, count>>

\* artifact::artifact_signer and the key lookup
par_read_signer(p) ==
    /\ TaskAt(p, "signer")
    /\ LET s == artifact_signer(p) IN
       IF s = "Err"
       THEN TaskGoesOn(p, "Err")
       ELSE tasks' = [tasks EXCEPT
                        ![p] = [pc |-> IF KeyMissing(s) THEN "key" ELSE AfterKeys,
                                signer |-> s]]
    /\ UNCHANGED <<fsVars, seqVars, pc, err, count, writes>>

\* self.fetch_origin_key(ui, &signer, self.token)?
par_fetch_origin_key(p, answer) ==
    /\ TaskAt(p, "key")
    /\ IF answer = "Ok"
       THEN /\ keys' = keys \cup {tasks[p].signer}
            /\ Wrote(p, key_cache_path(tasks[p].signer))
            /\ TaskGoesOn(p, AfterKeys)
       ELSE /\ TaskGoesOn(p, "Err")
            /\ UNCHANGED <<keys, writes>>
    /\ UNCHANGED <<dirs, artifacts, seqVars, pc, err, count>>

\* artifact.verify(&self.path_for_keys())?
par_verify_artifact(p) ==
    /\ TaskAt(p, "verify")
    /\ TaskGoesOn(p, IF artifact_verify(p) THEN "push" ELSE "Err")
    /\ UNCHANGED <<fsVars, seqVars, pc, err, count, writes>>

\* Every task has returned: execute returns the number of archives, or an
\* Err if a task returned one.
par_join ==
    /\ pc = "download"
    /\ \A p \in Pairs : tasks[p].pc \in {"-", "push", "Err"}
    /\ IF \E p \in Pairs : TaskAt(p, "Err")
       THEN /\ pc' = "Failed"
            /\ count' = -1
       ELSE /\ pc' = "Done"
            /\ count' = Cardinality(expanded_idents)
    /\ UNCHANGED <<fsVars, seqVars, err, parVars>>

ParNext ==
    \/ \E p \in Pairs : par_get_downloaded_archive(p)
    \/ \E p \in Pairs, outcome \in RetryOutcomes, content \in FileContents :
          par_fetch_artifact(p, outcome, content)
    \/ \E p \in Pairs : par_read_signer(p)
    \/ \E p \in Pairs, answer \in DepotKeyAnswers : par_fetch_origin_key(p, answer)
    \/ \E p \in Pairs : par_verify_artifact(p)
    \/ par_join

ParSpec == ParInit /\ [][ParNext]_vars

\* ------------------------------------------------------------- fairness
\* A step of execute: every call of the depot, of the file system and of
\* the verifier returns, and execute runs on one thread from its entry to
\* its return, so a run that can take a step does take it.
ExecuteStep ==
    \/ \E parentOk \in BOOLEAN : verify_and_prepare_download_directory(parentOk)
    \/ \E answer \in DepotResolveAnswers : determine_latest_from_ident(answer)
    \/ expand_sources
    \/ \E p \in Pairs : get_downloaded_archive(p)
    \/ download_artifacts_done
    \/ \E answer \in DepotFetchAnswers, content \in FileContents :
          fetch_artifact(answer, content)
    \/ read_signer
    \/ \E answer \in DepotKeyAnswers : fetch_origin_key(answer)
    \/ verify_artifact
    \/ push_archive

FairSpec == Spec /\ WF_vars(ExecuteStep)

TypeOK ==
    /\ dirs \in [{"root", "keys", "artifacts"} -> DirStates]
    /\ artifacts \in [ArtifactPaths -> FileContents \cup {"absent"}]
    /\ keys \subseteq Signers
    /\ pc \in {"idle", "prepare", "resolve", "collect", "download", "fetch",
               "signer", "key", "verify", "push", "Done", "Failed"}
    /\ expanded_idents \subseteq Pairs
    /\ todo \subseteq expanded_idents
    /\ delays \in 0..RETRIES
    /\ count \in -1..Cardinality(Pairs)

\* ================================================================ claims
InRun == pc \notin {"idle"}

NoDepotCalls ==
    /\ resolveCalls = 0
    /\ tries = 0
    /\ fetched = {}
    /\ keyCalls = 0

FileAt(p) == artifacts[<<"root", "artifacts", <<p[1], p[2], "hart">>>>]

\* C1: a fetch that fails on every attempt is made exactly RETRIES (5)
\* times for its pair before the run fails with DownloadFailed.
C1_ExactlyRetriesCalls ==
    err = "DownloadFailed" => tries = RETRIES

\* C2: a pair the depot answered NOT_IMPLEMENTED for ends without an
\* error: the run is never Failed while that pair is the one in work.
C2_UnsupportedIsSkipped ==
    ~(pc = "Failed" /\ cur \in unsupported)

\* C3: when a run ends Done, every pair of the expanded set has its file
\* at its cache path, the key of the signer of each is in the keys
\* directory, and the returned count is the size of the expanded set.
C3_DoneHasEverything ==
    pc = "Done" =>
        /\ \A p \in expanded_idents :
              /\ FileAt(p) # "absent"
              /\ SignerOf(p[1]) \in keys
        /\ dirs = [d \in {"root", "keys", "artifacts"} |-> "dir"]
        /\ count = Cardinality(expanded_idents)

C3_Witness ==
    /\ pc = "Done"
    /\ Cardinality(expanded_idents) = 3
    /\ fetched # {}
    /\ keys = {"s1", "s2"}

\* C4: a run that repeats the inputs (identifiers and target, hence the
\* depot's resolutions) of the run before it, which ended Done, over the
\* same download directory calls fetch_artifact for no pair at all (nor
\* fetch_origin_key: of the depot calls only the resolutions are made again).
C4_RerunFetchesNothing ==
    rerun =>
        /\ fetched = {} /\ tries = 0 /\ pc # "fetch"
        /\ keyCalls = 0 /\ pc # "key"

C4_Witness ==
    /\ rerun
    /\ pc = "Done"
    /\ resolveCalls = 2
    /\ count = 3

\* C5: once a run has met a fatal condition it is Failed, and no resolve,
\* fetch_artifact, fetch_origin_key or verify call is made from then on in
\* that run, whatever identifiers or pairs are left.
C5_FailFast ==
    [][err # "none" =>
          /\ pc = "Failed"
          /\ resolveCalls' <= resolveCalls
          /\ tries' <= tries
          /\ fetched' \subseteq fetched
          /\ keyCalls' <= keyCalls
          /\ verifyCalls' <= verifyCalls]_vars

C5_Witness ==
    /\ pc = "Failed"
    /\ err = "DownloadFailed"
    /\ todo # {}
    /\ downloaded_artifacts # <<>>

\* C6: a run started with no identifiers is Failed at once with
\* MissingCLIInputError, having tried to create no directory and made no
\* depot call.
C6_EmptyInputFailsAtOnce ==
    (InRun /\ idents = <<>>) =>
        /\ pc = "Failed"
        /\ err = "MissingCLIInputError"
        /\ createCalls = 0
        /\ NoDepotCalls
        /\ verifyCalls = 0

C6_Witness ==
    /\ pc = "Failed"
    /\ err = "MissingCLIInputError"
    /\ dirs["root"] = "absent"

\* C7: when, after the creation step, one of the three directories is not
\* a directory or is read-only (or could not be created), the run is
\* Failed with PermissionFailed and no depot call has been made.
C7_BadDirectoryFailsBeforeDepot ==
    (createCalls > 0 /\ \E d \in {"root", "keys", "artifacts"} : dirs[d] # "dir") =>
        /\ pc = "Failed"
        /\ err = "PermissionFailed"
        /\ NoDepotCalls
        /\ verifyCalls = 0

C7_Witness ==
    /\ createCalls = 3
    /\ dirs = [root |-> "dir", keys |-> "readonly", artifacts |-> "dir"]
    /\ err = "PermissionFailed"

\* C8: in a run with verify = false, verify is never called, and a pair
\* whose file names a signer whose key is not in the keys directory gets
\* fetch_origin_key called for it.
C8_NoVerifyStillFetchesKey ==
    [][(InRun /\ ~verify) =>
          /\ verifyCalls' = 0
          /\ pc' # "verify"
          /\ (pc = "signer" /\ FileAt(cur) \in {"intact", "tampered"}
                            /\ SignerOf(cur[1]) \notin keys
                 => pc' = "key")
          /\ (pc = "key" => keyCalls' = keyCalls + 1)]_vars

C8_Witness ==
    /\ ~verify
    /\ pc = "push"
    /\ keyCalls = 1
    /\ cur \notin fetched
    /\ FileAt(cur) = "tampered"

\* C9: in a run with verify = true, Done is reached only with verify
\* having returned Ok for every pair of the expanded set, a verify call
\* that did not return Ok leaves the run Failed, and verify is called for
\* a pair only with its signer's key in the keys directory.
C9_VerifyGuardsDone ==
    (InRun /\ verify) =>
        /\ (pc = "Done" => verified = expanded_idents)
        /\ (verifyCalls # Cardinality(verified) =>
               (pc = "Failed" /\ err = "VerificationFailed"))
        /\ (pc = "verify" => (signer = SignerOf(cur[1]) /\ signer \in keys))

C9_Witness ==
    /\ verify
    /\ pc = "Done"
    /\ Cardinality(verified) = 3
    /\ fetched # {}
    /\ verified \ fetched # {}

\* C10: once every input identifier is resolved, the expanded set is the
\* set of (identifier, target) pairs made of each resolved identifier and
\* each of its tdeps, whatever duplicates and overlaps the inputs have.
Range(f) == {f[k] : k \in DOMAIN f}

C10_ExpansionIsUnion ==
    pc \in {"download", "fetch", "signer", "key", "verify", "push", "Done"} =>
        /\ Len(expanded_packages) = Len(idents)
        /\ expanded_idents =
              UNION {({pkg.ident} \cup Range(pkg.tdeps)) \X {target} :
                        pkg \in Range(expanded_packages)}
        /\ Cardinality(expanded_idents) =
              Cardinality(UNION {{pkg.ident} \cup Range(pkg.tdeps) :
                                    pkg \in Range(expanded_packages)})

C10_Witness ==
    /\ pc = "download"
    /\ idents = <<"b", "c/1">>
    /\ todo = expanded_idents
    /\ Cardinality(expanded_idents) = 3

\* C11: a run in which the depot answers NOT_FOUND for an input identifier
\* ends Failed with PackageNotFound at that answer: every entry of the list
\* up to and including that one was resolved exactly once, nothing was
\* expanded, no fetch_artifact, fetch_origin_key or verify call was made,
\* and no step of the run up to there, nor any step after the error, has
\* written an artifact or a key file.
C11_NotFoundAbortsBeforeFetch ==
    [][/\ err' = "PackageNotFound" =>
            /\ pc' = "Failed"
            /\ resolveCalls' = Len(expanded_packages') + 1
            /\ resolveCalls' <= Len(idents')
            /\ expanded_idents' = {}
            /\ downloaded_artifacts' = <<>>
            /\ fetched' = {}
            /\ tries' = 0
            /\ keyFetchedFor' = {}
            /\ keyCalls' = 0
            /\ verifyCalls' = 0
       /\ (pc \in {"prepare", "resolve"} \/ err = "PackageNotFound") =>
            /\ artifacts' = artifacts
            /\ keys' = keys]_vars

C11_Witness ==
    /\ err = "PackageNotFound"
    /\ pc = "Failed"
    /\ Len(idents) = 2
    /\ Len(expanded_packages) = 1
    /\ resolveCalls = 2

FetchPhaseStarted ==
    \/ cur # NoPair
    \/ downloaded_artifacts # <<>>
    \/ fetched # {}
    \/ keyFetchedFor # {}
    \/ verifyCalls > 0

C13_PhasesInOrder ==
    [][/\ resolveCalls' > resolveCalls =>
            /\ pc = "resolve"
            /\ createCalls = Len(system_paths)
            /\ \A d \in DOMAIN dirs : dirs[d] = "dir"
            /\ ~FetchPhaseStarted
       /\ FetchPhaseStarted' =>
            /\ resolveCalls' = Len(idents')
            /\ Len(expanded_packages') = Len(idents')
            /\ createCalls' = Len(system_paths)
       /\ pc' \in {"fetch", "signer", "key", "verify", "push"} =>
            FetchPhaseStarted']_vars

C13_Witness ==
    /\ pc = "fetch"
    /\ Len(idents) = 2
    /\ resolveCalls = 2
    /\ createCalls = 3
    /\ fetched = {}
    /\ downloaded_artifacts = <<>>

\* C14: every run ends, in exactly one of Done and Failed.  The steps a run
\* has left are bounded by a number that every step of execute lowers and
\* that never goes below zero (so the retry loop cannot go on forever), a
\* run that has started reaches Done or Failed, and these are told apart by
\* what happened: Done with no error, a count and every pair of the
\* expanded set pushed; Failed with an error and no count.
PairSteps == RETRIES + 6

StepsLeftInPair ==
    CASE pc = "fetch" -> delays + 5
      [] pc = "signer" -> 4
      [] pc = "key" -> 3
      [] pc = "verify" -> 2
      [] pc = "push" -> 1
      [] OTHER -> 0

StepsLeft ==
    CASE pc = "prepare" ->
           Len(idents) + Cardinality(Pairs) * PairSteps + 3
      [] pc = "resolve" ->
           (Len(idents) - Len(expanded_packages)) + Cardinality(Pairs) * PairSteps + 2
      [] pc = "collect" -> Cardinality(Pairs) * PairSteps + 2
      [] pc \in {"download", "fetch", "signer", "key", "verify", "push"} ->
           Cardinality(todo) * PairSteps + StepsLeftInPair + 1
      [] OTHER -> 0

Terminal == pc \in {"Done", "Failed"}

C14_EveryRunEnds ==
    /\ [][pc \notin {"idle", "Done", "Failed"} =>
            /\ StepsLeft' < StepsLeft
            /\ StepsLeft' >= 0]_vars
    /\ [](pc = "Done" =>
            /\ err = "none"
            /\ count = Cardinality(expanded_idents)
            /\ Len(downloaded_artifacts) = Cardinality(expanded_idents)
            /\ todo = {})
    /\ [](pc = "Failed" => err # "none" /\ count = -1)
    /\ [](err # "none" => pc = "Failed")
    /\ (pc # "idle") ~> Terminal

C14_Witness ==
    /\ pc = "Failed"
    /\ err = "VerificationFailed"
    /\ Len(downloaded_artifacts) = 2
    /\ Cardinality(expanded_idents) = 3

\* C15: whenever fetch_keys_and_verify_artifact starts for a pair, however
\* get_downloaded_archive got there, the pair's file is at its cache path.
C15_FileThereWhenKeysStart ==
    pc = "signer" => FileAt(cur) # "absent"

\* C16: a pair whose file is at its cache path when the loop takes it goes
\* to the key step with no fetch_artifact call (fetch_artifact is called
\* only from the fetch position, entered only for a pair with no file), and
\* for such a pair the rest is done all the same on the cached file: the
\* signer's key is fetched if it is not in the keys directory, and with
\* verify set the file is verified before the pair is pushed.
C16_CacheHitSkipsFetchOnly ==
    [][/\ (pc = "download" /\ cur' # NoPair /\ FileAt(cur') # "absent") =>
            /\ pc' = "signer"
            /\ fetched' = fetched
            /\ tries' = 0
       /\ pc' = "fetch" =>
            \/ pc = "fetch"
            \/ pc = "download" /\ FileAt(cur') = "absent"
       /\ fetched' # fetched =>
            \/ pc = "fetch" /\ fetched' = fetched \cup {cur}
            \/ pc' = "idle"
       /\ (pc = "signer" /\ cur \notin fetched
                         /\ FileAt(cur) \in {"intact", "tampered"}) =>
            pc' = IF SignerOf(cur[1]) \notin keys THEN "key"
                  ELSE IF verify THEN "verify" ELSE "push"
       /\ (pc = "key" /\ cur \notin fetched) =>
            /\ keyCalls' = keyCalls + 1
            /\ pc' \in {"Failed", IF verify THEN "verify" ELSE "push"}
       /\ (pc = "verify" /\ cur \notin fetched) =>
            /\ verifyCalls' = verifyCalls + 1
            /\ pc' = IF FileAt(cur) = "intact" THEN "push" ELSE "Failed"]_vars

C16_Witness ==
    /\ verify
    /\ pc = "push"
    /\ cur \notin fetched
    /\ cur \in verified
    /\ keyCalls = 1
    /\ tries = 0

\* C17: only fetch_artifact is retried.  show_package_metadata is called at
\* most once per entry of the input list and never for a tdep (the calls
\* made are one per package resolved, plus the one that failed);
\* fetch_origin_key is called at most once per pair; and when it fails the
\* run is Failed with its error at once, with no second call and no verify
\* call for that pair.
C17_OnlyFetchIsRetried ==
    [][/\ resolveCalls' <= Len(idents')
       /\ resolveCalls' \in {Len(expanded_packages'), Len(expanded_packages') + 1}
       /\ resolveCalls' > Len(expanded_packages') => pc' = "Failed"
       /\ keyCalls' <= 1
       /\ pc' = "key" => keyCalls' = 0
       /\ (pc = "key" /\ SignerOf(cur[1]) \notin keys') =>
            /\ pc' = "Failed"
            /\ err' = "APIError"
            /\ keyCalls' = 1
            /\ verifyCalls' = verifyCalls
            /\ cur' = cur
            /\ cur \notin verified'
       /\ (pc = "Failed" /\ pc' # "idle") => UNCHANGED vars]_vars

C17_Witness ==
    /\ pc = "Failed"
    /\ err = "APIError"
    /\ keyCalls = 1
    /\ verify
    /\ idents = <<"c/1">>
    /\ resolveCalls = 1
    /\ Cardinality(expanded_idents) = 3
    /\ Len(downloaded_artifacts) = 1

\* C18: fetch_origin_key is called for a pair only when the key of the
\* pair's signer is not in the keys directory at that moment, with verify
\* set or not; a key that is there is never fetched; keys are never
\* removed; so within a run no signer's key is fetched twice, however many
\* pairs share the signer.
C18_KeyFetchedOnlyIfAbsent ==
    [][/\ keyCalls' > keyCalls =>
            /\ pc = "key"
            /\ signer = SignerOf(cur[1])
            /\ signer \notin keys
            /\ signer \notin keyFetchedFor
            /\ keyFetchedFor' = keyFetchedFor \cup {signer}
       /\ (keyFetchedFor' # keyFetchedFor /\ pc' # "idle") => keyCalls' > keyCalls
       /\ (pc = "signer" /\ SignerOf(cur[1]) \in keys) => pc' # "key"
       /\ pc' = "key" => signer' \notin keys'
       /\ keys \subseteq keys']_vars

C18_Witness ==
    /\ pc = "Done"
    /\ idents = <<"b">>
    /\ count = 2
    /\ keyFetchedFor = {"s1"}
    /\ Cardinality(fetched) = 2

\* C19: the number of tries DownloadFailed reports for a pair is the
\* number of fetch_artifact calls that were made for it.
C19_ReportedTriesAreMade ==
    (pc = "Failed" /\ err = "DownloadFailed") => ReportedTries = tries

\* C20: the retry loop stops at the first answer that is not an error.  At
\* the fetch position the failed calls so far are the delays used up; the
\* call that is answered Ok (the file is written) or NOT_IMPLEMENTED (the
\* pair is noted unsupported) is the last one for the pair, k + 1 calls
\* after k failures, with no DownloadFailed, and no fetch_artifact call
\* follows once the loop is left; DownloadFailed comes only from a call
\* that failed with no delay left.
C20_RetryStopsAtFirstAnswer ==
    [][/\ pc = "fetch" =>
            /\ tries = RETRIES - delays
            /\ tries' = tries + 1
            /\ (FileAt(cur)' # "absent" \/ cur \in unsupported') =>
                  /\ pc' = "signer"
                  /\ err' = "none"
                  /\ delays' = delays
       /\ pc = "signer" =>
            /\ cur \in fetched => tries = (RETRIES - delays) + 1
            /\ tries' = 0
            /\ fetched' = fetched
       /\ (pc \in {"key", "verify", "push"} /\ pc' # "idle") =>
            /\ tries' = 0
            /\ fetched' = fetched
       /\ (err = "none" /\ err' = "DownloadFailed") =>
            /\ pc = "fetch"
            /\ delays = 0
            /\ FileAt(cur)' = "absent"
            /\ cur \notin unsupported']_vars

C20_Witness ==
    /\ pc = "signer"
    /\ tries = 3
    /\ delays = 3
    /\ FileAt(cur) = "intact"
    /\ err = "none"

FileAtNext(p) == artifacts'[<<"root", "artifacts", <<p[1], p[2], "hart">>>>]

====
